---- MODULE Spec2Model ----
(***************************************************************************)
(* Model of docs/tutorials/notebooks/api_training_custom.ipynb of solaris: *)
(* the Keras graph builder cosmiq_sn4_baseline (one step per statement of  *)
(* the function body) and the notebook's cells, which bind the builder     *)
(* into custom_model_dict, parse the config, construct the Trainer and     *)
(* call train().                                                           *)
(***************************************************************************)
EXTENDS Integers, Sequences, FiniteSets, TLC

VARIABLES
    pc,                 \* the notebook statement that runs next
    ran,                \* the notebook statements that have run, in order
    custom_model_dict,  \* cell 2's dictionary (Unbound before cell 2)
    config,             \* cell 3's parsed config (Unbound before it)
    trainer,            \* cell 3's trainer (Unbound before it)
    input_shape,        \* the builder's argument input_shape = <<H, W, C>>
    base_depth,         \* the builder's argument base_depth
    rejectEmpty,        \* the framework raises on a layer output of extent 0
    rejectZeroFilters,  \* the framework raises on a filters argument of 0
    bpc,                \* statement of the builder body that runs next, 0 = not running
    layers,             \* tensors the running invocation has created, in order
    models,             \* the Model objects the invocations have returned
    error               \* the exception that ended the notebook, or NoError

vars == <<pc, ran, custom_model_dict, config, trainer, input_shape, base_depth,
          rejectEmpty, rejectZeroFilters, bpc, layers, models, error>>

nbvars == <<pc, ran, custom_model_dict, config, trainer>>
argvars == <<input_shape, base_depth, rejectEmpty, rejectZeroFilters>>

-----------------------------------------------------------------------------
(* Bounds of the model *)

MaxH == 48
MaxW == 64
MaxC == 2
MaxDepth == 4
MaxCalls == 2

(* Heights are every extent up to MaxH; widths are the multiples of the    *)
(* total downsampling factor up to MaxW and the extents one above them,    *)
(* and 1.                                                                  *)
Heights == 1..MaxH
Widths == {w \in 1..MaxW : w % 32 \in {0, 1}}
Channels == 1..MaxC
Depths == 1..MaxDepth

-----------------------------------------------------------------------------
(* Values *)

None == "None"

(* A notebook name no cell has assigned yet. *)
Unbound == <<>>
NoError == [at |-> "none", kind |-> "none"]

(* A statement `name = Op(filters, kernel, ...)(args)` of the builder. *)
Stmt(name, op, filters, kernel, strides, activation, padding, args) ==
    [name |-> name, op |-> op, filters |-> filters, kernel |-> kernel,
     strides |-> strides, activation |-> activation, padding |-> padding,
     args |-> args]

Conv2D(name, filters, kernel, activation, arg) ==
    Stmt(name, "Conv2D", filters, kernel, 1, activation, "same", <<arg>>)

MaxPooling2D(name, arg) ==
    Stmt(name, "MaxPooling2D", 0, 2, 2, "none", "valid", <<arg>>)

Conv2DTranspose(name, filters, arg) ==
    Stmt(name, "Conv2DTranspose", filters, 2, 2, "relu", "same", <<arg>>)

concatenate(name, a, b) ==
    Stmt(name, "concatenate", 0, 0, 0, "none", "none", <<a, b>>)

(* Faulty variant: the half rounded up. *)
IntHalf_RoundUp(b) == (b + 1) \div 2

(* int(base_depth/2): true division, then truncation toward zero. *)
IntHalf(b) == b \div 2

-----------------------------------------------------------------------------
(* The body of cosmiq_sn4_baseline, statement by statement *)

InputStmt == Stmt("inputs", "Input", 0, 0, 0, "none", "none", <<>>)

Enc1(b) == << Conv2D("conv1", b, 3, "relu", "inputs"),
              MaxPooling2D("pool1", "conv1") >>

Enc2(b) == << Conv2D("conv2_1", b * 2, 3, "relu", "pool1"),
              MaxPooling2D("pool2", "conv2_1") >>

Enc3(b) == << Conv2D("conv3_1", b * 4, 3, "relu", "pool2"),
              Conv2D("conv3_2", b * 4, 3, "relu", "conv3_1"),
              MaxPooling2D("pool3", "conv3_2") >>

(* Faulty variant: conv4_2 reads pool3, leaving conv4_1 unused. *)
Enc4_Dangling(b) ==
    << Conv2D("conv4_1", b * 8, 3, "relu", "pool3"),
       Conv2D("conv4_2", b * 8, 3, "relu", "pool3"),
       MaxPooling2D("pool4", "conv4_2") >>

Enc4(b) == << Conv2D("conv4_1", b * 8, 3, "relu", "pool3"),
              Conv2D("conv4_2", b * 8, 3, "relu", "conv4_1"),
              MaxPooling2D("pool4", "conv4_2") >>

(* Faulty variant: the filter width keeps doubling in stage 5. *)
Enc5_Doubled(b) ==
    << Conv2D("conv5_1", b * 16, 3, "relu", "pool4"),
       Conv2D("conv5_2", b * 16, 3, "relu", "conv5_1"),
       MaxPooling2D("pool5", "conv5_2") >>

Enc5(b) == << Conv2D("conv5_1", b * 8, 3, "relu", "pool4"),
              Conv2D("conv5_2", b * 8, 3, "relu", "conv5_1"),
              MaxPooling2D("pool5", "conv5_2") >>

Bottleneck(b) == << Conv2D("conv6_1", b * 8, 3, "relu", "pool5") >>

Dec7(b) == << Conv2DTranspose("up7", b * 4, "conv6_1"),
              concatenate("concat7", "up7", "conv5_2"),
              Conv2D("conv7_1", b * 8, 3, "relu", "concat7") >>

(* Faulty variant: concat8 joins conv4_1, the stage's first convolution. *)
Dec8_WrongSkip(b) ==
    << Conv2DTranspose("up8", b * 4, "conv7_1"),
       concatenate("concat8", "up8", "conv4_1"),
       Conv2D("conv8_1", b * 8, 3, "relu", "concat8") >>

Dec8(b) == << Conv2DTranspose("up8", b * 4, "conv7_1"),
              concatenate("concat8", "up8", "conv4_2"),
              Conv2D("conv8_1", b * 8, 3, "relu", "concat8") >>

Dec9(b) == << Conv2DTranspose("up9", b * 2, "conv8_1"),
              concatenate("concat9", "up9", "conv3_2"),
              Conv2D("conv9_1", b * 4, 3, "relu", "concat9") >>

(* Faulty variant: conv10_1 reads up10, not concat10. *)
Dec10_ConvReadsUp(b) ==
    << Conv2DTranspose("up10", b, "conv9_1"),
       concatenate("concat10", "up10", "conv2_1"),
       Conv2D("conv10_1", b * 2, 3, "relu", "up10") >>

Dec10(b) == << Conv2DTranspose("up10", b, "conv9_1"),
               concatenate("concat10", "up10", "conv2_1"),
               Conv2D("conv10_1", b * 2, 3, "relu", "concat10") >>

(* Faulty variant: up11 built without strides=(2, 2). *)
Dec11_NoStride(b) ==
    << Stmt("up11", "Conv2DTranspose", IntHalf(b), 2, 1, "relu", "same",
            <<"conv10_1">>),
       concatenate("concat11", "up11", "conv1") >>

Dec11(b) == << Conv2DTranspose("up11", IntHalf(b), "conv10_1"),
               concatenate("concat11", "up11", "conv1") >>

OutputHead == << Conv2D("out", 1, 1, "sigmoid", "concat11") >>

Encoder(b) == Enc1(b) \o Enc2(b) \o Enc3(b) \o Enc4(b) \o Enc5(b)

Decoder(b) == Dec7(b) \o Dec8(b) \o Dec9(b) \o Dec10(b) \o Dec11(b)

Body(b) == <<InputStmt>> \o Encoder(b) \o Bottleneck(b) \o Decoder(b) \o OutputHead

(* The tensor a name of the builder is bound to. *)
Tensor(ls, name) == ls[CHOOSE i \in 1..Len(ls) : ls[i].name = name]

Bound(ls, name) == \E i \in 1..Len(ls) : ls[i].name = name

-----------------------------------------------------------------------------
(* Shape inference of the layers the builder uses *)

(* Output extent of a strided window over n positions. *)
WindowExtent(n, kernel, strides, padding) ==
    IF padding = "same"
    THEN (n + strides - 1) \div strides
    ELSE IF n < kernel THEN 0 ELSE (n - kernel) \div strides + 1

(* Output extent of a transposed convolution with padding='same'. *)
TransposeExtent(n, strides) == n * strides

(* Faulty variant: only the first spatial axis is compared. *)
ConcatCompatible_HeightOnly(a, b) == a[1] = b[1]

(* concatenate() joins along the last axis; every other axis must agree. *)
ConcatCompatible(a, b) == a[1] = b[1] /\ a[2] = b[2]

OutShape(s, ins) ==
    CASE s.op = "Input" -> input_shape
      [] s.op = "Conv2D" ->
            << WindowExtent(ins[1][1], s.kernel, s.strides, s.padding),
               WindowExtent(ins[1][2], s.kernel, s.strides, s.padding),
               s.filters >>
      [] s.op = "MaxPooling2D" ->
            << WindowExtent(ins[1][1], s.kernel, s.strides, s.padding),
               WindowExtent(ins[1][2], s.kernel, s.strides, s.padding),
               ins[1][3] >>
      [] s.op = "Conv2DTranspose" ->
            << TransposeExtent(ins[1][1], s.strides),
               TransposeExtent(ins[1][2], s.strides),
               s.filters >>
      [] s.op = "concatenate" ->
            << ins[1][1], ins[1][2], ins[1][3] + ins[2][3] >>

(* The exception the framework raises on the statement, "none" if none.    *)
(* Whether an empty output extent and a zero filter count are rejected is  *)
(* the framework's choice, fixed for the run.                              *)
Raises(s, ins) ==
    IF s.op = "concatenate" /\ ~ConcatCompatible(ins[1], ins[2])
    THEN "shape_mismatch"
    ELSE IF s.op \in {"Conv2D", "Conv2DTranspose"} /\ s.filters = 0
            /\ rejectZeroFilters
    THEN "invalid_filters"
    ELSE IF s.op \in {"Conv2D", "MaxPooling2D", "Conv2DTranspose"} /\ rejectEmpty
            /\ (OutShape(s, ins)[1] = 0 \/ OutShape(s, ins)[2] = 0)
    THEN "empty_output"
    ELSE "none"

-----------------------------------------------------------------------------
(* The notebook's cells, top to bottom *)

(* Faulty variant: the Trainer is constructed before the config is parsed. *)
NextStatement_TrainerFirst(c) ==
    CASE c = "def" -> "dict"
      [] c = "dict" -> "trainer"
      [] c = "trainer" -> "parse"
      [] c = "parse" -> "train"
      [] c = "train" -> "done"

(* The statement that follows a notebook statement in cell order: the def  *)
(* of cell 1, the dict of cell 2, parse and Trainer of cell 3, train of    *)
(* cell 4.                                                                 *)
NextStatement(c) ==
    CASE c = "def" -> "dict"
      [] c = "dict" -> "parse"
      [] c = "parse" -> "trainer"
      [] c = "trainer" -> "train"
      [] c = "train" -> "done"

(* Faulty variant: both weight sources given. *)
CustomModelDict_BothWeights ==
    [model_name |-> "cosmiq_sn4_baseline",
     weight_path |-> "weights.h5",
     weight_url |-> "https://example.com/weights.h5",
     arch |-> "cosmiq_sn4_baseline"]

(* Cell 2's dictionary literal. *)
CustomModelDict ==
    [model_name |-> "cosmiq_sn4_baseline",
     weight_path |-> None,
     weight_url |-> None,
     arch |-> "cosmiq_sn4_baseline"]

Init ==
    /\ pc = "def"
    /\ ran = <<>>
    /\ custom_model_dict = Unbound
    /\ config = Unbound
    /\ trainer = Unbound
    /\ input_shape \in Heights \X Widths \X Channels
    /\ base_depth \in Depths
    /\ rejectEmpty \in BOOLEAN
    /\ rejectZeroFilters \in BOOLEAN
    /\ bpc = 0
    /\ layers = <<>>
    /\ models = <<>>
    /\ error = NoError

(* Cell 1: def cosmiq_sn4_baseline(...) binds the function. *)
DefineArch ==
    /\ pc = "def"
    /\ pc' = NextStatement("def")
    /\ ran' = Append(ran, "def")
    /\ UNCHANGED <<custom_model_dict, config, trainer, argvars, bpc, layers,
                   models, error>>

(* Cell 2: custom_model_dict = {...}. *)
AssembleDescriptor ==
    /\ pc = "dict"
    /\ custom_model_dict' = CustomModelDict
    /\ pc' = NextStatement("dict")
    /\ ran' = Append(ran, "dict")
    /\ UNCHANGED <<config, trainer, argvars, bpc, layers, models, error>>

(* Cell 3, first statement: config = sol.utils.config.parse(path). *)
ParseConfig ==
    /\ pc = "parse"
    /\ config' = [path |-> "cosmiq_sn4_baseline.yml"]
    /\ pc' = NextStatement("parse")
    /\ ran' = Append(ran, "parse")
    /\ UNCHANGED <<custom_model_dict, trainer, argvars, bpc, layers, models,
                   error>>

(* Cell 3, second statement: Trainer(config, custom_model_dict=...) is     *)
(* entered with the two values bound above.                                *)
ConstructTrainer ==
    /\ pc = "trainer"
    /\ pc' = "in_trainer"
    /\ ran' = Append(ran, "trainer")
    /\ UNCHANGED <<custom_model_dict, config, trainer, argvars, bpc, layers,
                   models, error>>

(* The trainer calls custom_model_dict['arch'] with the run's arguments. *)
CallArch ==
    /\ pc = "in_trainer"
    /\ bpc = 0
    /\ Len(models) < MaxCalls
    /\ bpc' = 1
    /\ layers' = <<>>
    /\ UNCHANGED <<nbvars, argvars, models, error>>

(* Trainer(...) returns and the name trainer is bound. *)
TrainerConstructed ==
    /\ pc = "in_trainer"
    /\ bpc = 0
    /\ trainer' = [config |-> config, custom_model_dict |-> custom_model_dict]
    /\ pc' = NextStatement("trainer")
    /\ UNCHANGED <<ran, custom_model_dict, config, argvars, bpc, layers,
                   models, error>>

(* Cell 4: trainer.train(). *)
Train ==
    /\ pc = "train"
    /\ trainer # Unbound
    /\ pc' = NextStatement("train")
    /\ ran' = Append(ran, "train")
    /\ UNCHANGED <<custom_model_dict, config, trainer, argvars, bpc, layers,
                   models, error>>

-----------------------------------------------------------------------------
(* One invocation of cosmiq_sn4_baseline, statement by statement *)

(* Faulty variant: the depth grows with every graph already built. *)
Statement_Stateful == Body(base_depth + Len(models))[bpc]

Statement == Body(base_depth)[bpc]

Running(op) == bpc \in 1..Len(Body(base_depth)) /\ Statement.op = op

Inputs(s) == [i \in 1..Len(s.args) |-> Tensor(layers, s.args[i]).shape]

(* The tensor a statement binds to its name. *)
NewTensor(s) ==
    [name |-> s.name, op |-> s.op, filters |-> s.filters, kernel |-> s.kernel,
     strides |-> s.strides, activation |-> s.activation, args |-> s.args,
     shape |-> OutShape(s, Inputs(s))]

(* Run the statement: bind its tensor, or let the framework's exception    *)
(* leave the builder, the trainer and the cell.                            *)
Execute(s) ==
    IF Raises(s, Inputs(s)) = "none"
    THEN /\ layers' = Append(layers, NewTensor(s))
         /\ bpc' = bpc + 1
         /\ UNCHANGED <<nbvars, argvars, models, error>>
    ELSE /\ error' = [at |-> s.name, kind |-> Raises(s, Inputs(s))]
         /\ bpc' = 0
         /\ pc' = "failed"
         /\ UNCHANGED <<ran, custom_model_dict, config, trainer, argvars,
                        layers, models>>

StepInput == Running("Input") /\ Execute(Statement)

StepConv2D == Running("Conv2D") /\ Execute(Statement)

StepMaxPooling2D == Running("MaxPooling2D") /\ Execute(Statement)

StepConv2DTranspose == Running("Conv2DTranspose") /\ Execute(Statement)

StepConcatenate == Running("concatenate") /\ Execute(Statement)

(* return Model(inputs=inputs, outputs=out) *)
ReturnModel ==
    /\ bpc = Len(Body(base_depth)) + 1
    /\ models' = Append(models, [inputs |-> "inputs", outputs |-> "out",
                                 layers |-> layers])
    /\ bpc' = 0
    /\ UNCHANGED <<nbvars, argvars, layers, error>>

Next ==
    \/ DefineArch
    \/ AssembleDescriptor
    \/ ParseConfig
    \/ ConstructTrainer
    \/ CallArch
    \/ TrainerConstructed
    \/ Train
    \/ StepInput
    \/ StepConv2D
    \/ StepMaxPooling2D
    \/ StepConv2DTranspose
    \/ StepConcatenate
    \/ ReturnModel

Spec == Init /\ [][Next]_vars

-----------------------------------------------------------------------------
(* Vocabulary of the properties *)

H == input_shape[1]
W == input_shape[2]
C == input_shape[3]

Divisible32 == H % 32 = 0 /\ W % 32 = 0

Prefix(s, t) == Len(s) <= Len(t) /\ \A i \in 1..Len(s) : s[i] = t[i]

OfOp(ls, op) == SelectSeq(ls, LAMBDA l : l.op = op)

Index(ls, name) == CHOOSE i \in 1..Len(ls) : ls[i].name = name

(* The layers of ls that take the tensor `name` as an input. *)
Consumers(ls, name) ==
    {i \in 1..Len(ls) : \E k \in 1..Len(ls[i].args) : ls[i].args[k] = name}

Spatial(l) == <<l.shape[1], l.shape[2]>>

Pow2(k) == IF k = 0 THEN 1 ELSE IF k = 1 THEN 2 ELSE IF k = 2 THEN 4
           ELSE IF k = 3 THEN 8 ELSE IF k = 4 THEN 16 ELSE 32

ConcatNames == {"concat7", "concat8", "concat9", "concat10", "concat11"}
PoolNames == {"pool1", "pool2", "pool3", "pool4", "pool5"}

(* The output tensor of a returned Model. *)
OutputOf(m) == Tensor(m.layers, m.outputs)

-----------------------------------------------------------------------------
(* C1: for H and W multiples of 32, C positive and base_depth even, the    *)
(* build raises nothing and every returned graph's output is the 1x1       *)
(* sigmoid convolution with one filter, of shape (H, W, 1).                *)
C1_OutputShape ==
    (Divisible32 /\ base_depth % 2 = 0) =>
        /\ error = NoError
        /\ pc # "failed"
        /\ \A i \in 1..Len(models) :
              /\ OutputOf(models[i]).shape = <<H, W, 1>>
              /\ OutputOf(models[i]).op = "Conv2D"
              /\ OutputOf(models[i]).kernel = 1
              /\ OutputOf(models[i]).filters = 1
              /\ OutputOf(models[i]).activation = "sigmoid"

C1_Witness ==
    /\ Divisible32 /\ base_depth % 2 = 0 /\ C > 1 /\ H # W
    /\ Len(models) >= 1
    /\ OutputOf(models[1]).shape = <<H, W, 1>>

-----------------------------------------------------------------------------
(* C2, as claimed: for H or W not a multiple of 32 no graph is returned    *)
(* and the exception that ends the build is a shape mismatch raised at one *)
(* of concat7..concat11.                                                   *)
C2_EndsAtConcatenation ==
    ~Divisible32 =>
        /\ models = <<>>
        /\ pc = "failed" =>
              error.kind = "shape_mismatch" /\ error.at \in ConcatNames

(* C2, amended: for H or W not a multiple of 32 no graph is returned and   *)
(* the build ends in an exception: a shape mismatch at one of              *)
(* concat7..concat11 whenever H, W >= 32 and base_depth >= 2; otherwise it *)
(* is that mismatch, or the framework's rejection of a max-pooling whose   *)
(* input is narrower than its 2x2 window (H or W below 32), or of up11's   *)
(* zero filters (base_depth = 1).                                          *)
C2_NoGraph ==
    ~Divisible32 =>
        /\ models = <<>>
        /\ \A i \in 1..Len(layers) : layers[i].name # "concat11"
        /\ pc = "failed" =>
              \/ error.kind = "shape_mismatch" /\ error.at \in ConcatNames
              \/ /\ error.kind = "empty_output" /\ error.at \in PoolNames
                 /\ (H < 32 \/ W < 32)
              \/ /\ error.kind = "invalid_filters" /\ error.at = "up11"
                 /\ base_depth = 1

C2_Witness ==
    /\ H % 32 = 0 /\ W % 32 # 0 /\ W > 32 /\ base_depth >= 2
    /\ pc = "failed"
    /\ error.kind = "shape_mismatch" /\ error.at \in ConcatNames
    /\ models = <<>>

-----------------------------------------------------------------------------
(* C3, as claimed: for odd base_depth the build ends in a construction     *)
(* error and no graph is returned.                                         *)
C3_OddDepthFails ==
    base_depth % 2 = 1 => models = <<>>

(* C3, amended: for odd base_depth the final decoder stage's filter count  *)
(* is int(base_depth/2) = (base_depth - 1)/2, truncated, and for odd       *)
(* base_depth >= 3 with H and W multiples of 32 the build raises nothing   *)
(* and every returned graph has output shape (H, W, 1); only base_depth =  *)
(* 1, whose truncated filter count is 0, can end in a filter-count error.  *)
C3_OddDepthTruncates ==
    base_depth % 2 = 1 =>
        /\ \A i \in 1..Len(layers) :
              layers[i].name = "up11" =>
                  layers[i].filters * 2 = base_depth - 1
        /\ \A i \in 1..Len(models) :
              /\ Tensor(models[i].layers, "up11").filters * 2 = base_depth - 1
              /\ OutputOf(models[i]).shape = <<H, W, 1>>
        /\ (base_depth >= 3 /\ Divisible32) => error = NoError
        /\ error.kind = "invalid_filters" =>
              base_depth = 1 /\ error.at = "up11"

C3_Witness ==
    /\ base_depth % 2 = 1 /\ base_depth >= 3
    /\ Len(models) >= 1
    /\ Tensor(models[1].layers, "up11").filters * 2 = base_depth - 1

-----------------------------------------------------------------------------
-----------------------------------------------------------------------------
(* Structure of a returned graph *)

Ups(ls) == OfOp(ls, "Conv2DTranspose")
Pools(ls) == OfOp(ls, "MaxPooling2D")
Concats(ls) == OfOp(ls, "concatenate")

(* The stage's concatenation is consumed by exactly one 3x3-or-larger      *)
(* convolution that is not the graph's output, and that convolution alone  *)
(* feeds what follows.                                                     *)
Fused(m, t) ==
    \E i \in 1..Len(m.layers) :
        /\ Consumers(m.layers, t.name) = {i}
        /\ m.layers[i].op = "Conv2D"
        /\ m.layers[i].name # m.outputs
        /\ m.layers[i].args = <<t.name>>
        /\ Spatial(m.layers[i]) = Spatial(t)

(* Decoder stage k: a 2x2-stride transposed convolution, then a            *)
(* concatenation of it with an encoder convolution that a pooling reads.   *)
UpThenConcat(m, k) ==
    LET ls == m.layers
        u == Ups(ls)[k]
        t == Concats(ls)[k]
    IN /\ u.strides = 2 /\ u.kernel = 2 /\ u.activation = "relu"
       /\ Consumers(ls, u.name) = {Index(ls, t.name)}
       /\ t.args[1] = u.name
       /\ Tensor(ls, t.args[2]).op = "Conv2D"
       /\ Index(ls, t.args[2]) < Index(ls, Ups(ls)[1].name)
       /\ \E p \in Consumers(ls, t.args[2]) : ls[p].op = "MaxPooling2D"
       /\ t.shape[3] = u.shape[3] + Tensor(ls, t.args[2]).shape[3]

(* C5, as claimed: all five decoder stages are transposed convolution,     *)
(* concatenation, then a fusing convolution ahead of the next stage or the *)
(* output head.                                                            *)
C5_AllStagesFuse ==
    \A i \in 1..Len(models) :
        /\ Len(Ups(models[i].layers)) = 5
        /\ Len(Concats(models[i].layers)) = 5
        /\ \A k \in 1..5 :
              /\ UpThenConcat(models[i], k)
              /\ Fused(models[i], Concats(models[i].layers)[k])

(* C5, amended: all five decoder stages are a 2x2-stride transposed        *)
(* convolution followed by a concatenation with an encoder activation; in  *)
(* stages 1..4 one convolution fuses the concatenation and feeds the next  *)
(* stage's transposed convolution, while the fifth concatenation           *)
(* (concat11) is read directly by the 1x1 output head, with no fusing      *)
(* convolution in between.                                                 *)
C5_FourStagesFuse ==
    \A i \in 1..Len(models) :
        LET m == models[i]
            ls == m.layers
        IN /\ Len(Ups(ls)) = 5
           /\ Len(Concats(ls)) = 5
           /\ \A k \in 1..5 : UpThenConcat(m, k)
           /\ \A k \in 1..4 :
                 /\ Fused(m, Concats(ls)[k])
                 /\ \E f \in Consumers(ls, Concats(ls)[k].name) :
                       Consumers(ls, ls[f].name) = {Index(ls, Ups(ls)[k + 1].name)}
           /\ ~Fused(m, Concats(ls)[5])
           /\ Consumers(ls, Concats(ls)[5].name) = {Index(ls, m.outputs)}
           /\ OutputOf(m).kernel = 1

C5_Witness ==
    /\ Len(models) >= 1
    /\ Len(Concats(models[1].layers)) = 5
    /\ Consumers(models[1].layers, "concat11") = {Index(models[1].layers, "out")}

-----------------------------------------------------------------------------
(* The notebook's statements in the order of the cells, and in the order   *)
(* the claim gives.                                                        *)
CellOrder == <<"def", "dict", "parse", "trainer", "train">>
ClaimedOrder == <<"parse", "def", "dict", "trainer", "train">>

AtMostOnce(seq) == \A i, j \in 1..Len(seq) : seq[i] = seq[j] => i = j

TrainerEntered == \E i \in 1..Len(ran) : ran[i] = "trainer"
TrainEntered == \E i \in 1..Len(ran) : ran[i] = "train"

(* C6, as claimed: config parsing runs first, then the architecture        *)
(* function, the descriptor, the trainer and train().                      *)
C6_ParseFirst ==
    Prefix(ran, ClaimedOrder)

(* C6, amended: the steps run each at most once, with no loop or retry, in *)
(* the order architecture function defined, descriptor assembled, config   *)
(* parsed, trainer constructed, train() invoked; train() never runs before *)
(* the trainer is constructed and trainer construction never starts before *)
(* both the config and the descriptor exist.                               *)
C6_CellOrder ==
    /\ Prefix(ran, CellOrder)
    /\ AtMostOnce(ran)
    /\ pc = "done" => ran = CellOrder
    /\ TrainEntered => trainer # Unbound
    /\ TrainerEntered => (config # Unbound /\ custom_model_dict # Unbound)
    /\ trainer # Unbound => TrainerEntered

C6_Witness ==
    /\ pc = "done"
    /\ ran = CellOrder
    /\ trainer # Unbound

-----------------------------------------------------------------------------
DescriptorKeys == {"model_name", "weight_path", "weight_url", "arch"}

WellFormedDescriptor(d) ==
    /\ DOMAIN d = DescriptorKeys
    /\ ~(d.weight_path # None /\ d.weight_url # None)

(* C7: from descriptor assembly on, through trainer construction and       *)
(* train(), the descriptor has exactly the keys model_name, weight_path,   *)
(* weight_url and arch, and weight_path and weight_url are never both set  *)
(* (in the notebook both are None); the trainer holds that descriptor.     *)
C7_Descriptor ==
    /\ (\E i \in 1..Len(ran) : ran[i] = "dict") =>
          /\ WellFormedDescriptor(custom_model_dict)
          /\ custom_model_dict.arch = "cosmiq_sn4_baseline"
    /\ trainer # Unbound =>
          /\ WellFormedDescriptor(trainer.custom_model_dict)
          /\ trainer.custom_model_dict = custom_model_dict

C7_Witness ==
    /\ pc = "done"
    /\ custom_model_dict.weight_path = None
    /\ custom_model_dict.weight_url = None
    /\ trainer.custom_model_dict = custom_model_dict

-----------------------------------------------------------------------------
(* The encoder activations that a max-pooling reads, in creation order. *)
PrePool(ls) == [k \in 1..Len(Pools(ls)) |-> Pools(ls)[k].args[1]]

(* C8: the five pre-pool activations conv1, conv2_1, conv3_2, conv4_2,     *)
(* conv5_2 are read by the five concatenations in reverse order of         *)
(* creation, each by exactly one concatenation; decoder stage k joins its  *)
(* upsampled map with the pre-pool activation of encoder stage 6-k, and    *)
(* the two have the same spatial size (H / 2^(5-k), W / 2^(5-k)).          *)
C8_SkipConnections ==
    \A i \in 1..Len(models) :
        LET ls == models[i].layers
        IN /\ PrePool(ls) = <<"conv1", "conv2_1", "conv3_2", "conv4_2", "conv5_2">>
           /\ Len(Concats(ls)) = 5
           /\ Len(Ups(ls)) = 5
           /\ \A k \in 1..5 :
                 /\ Concats(ls)[k].args = <<Ups(ls)[k].name, PrePool(ls)[6 - k]>>
                 /\ Cardinality({c \in Consumers(ls, PrePool(ls)[k]) :
                                    ls[c].op = "concatenate"}) = 1
                 /\ Spatial(Ups(ls)[k]) = Spatial(Tensor(ls, PrePool(ls)[6 - k]))
                 /\ Spatial(Ups(ls)[k]) = <<H \div Pow2(5 - k), W \div Pow2(5 - k)>>
           /\ \A k \in 1..4 :
                 Index(ls, Concats(ls)[k].args[2]) > Index(ls, Concats(ls)[k + 1].args[2])

C8_Witness ==
    /\ Len(models) >= 1
    /\ Concats(models[1].layers)[1].args[2] = "conv5_2"
    /\ Concats(models[1].layers)[5].args[2] = "conv1"
    /\ W >= 64

-----------------------------------------------------------------------------
(* Convolutions of encoder stage k (k = 6: the bottleneck): those between  *)
(* the pooling that ends stage k-1 and the pooling, or first transposed    *)
(* convolution, that ends stage k.                                         *)
StageConvs(ls, k) ==
    LET lo == IF k = 1 THEN 1 ELSE Index(ls, Pools(ls)[k - 1].name)
        hi == IF k = 6 THEN Index(ls, Ups(ls)[1].name)
              ELSE Index(ls, Pools(ls)[k].name)
    IN {i \in (lo + 1)..(hi - 1) : ls[i].op = "Conv2D"}

StageWidth == <<1, 2, 4, 8, 8, 8>>
StageCount == <<1, 1, 2, 2, 2, 1>>

(* C9: the encoder has five stages with filter widths base_depth x         *)
(* (1, 2, 4, 8, 8) and 1, 1, 2, 2, 2 convolutions; each stage after the    *)
(* first is preceded by exactly one 2x2 max-pooling of the previous        *)
(* stage's last convolution, so stage k works at (H / 2^(k-1),             *)
(* W / 2^(k-1)); the bottleneck is one convolution of width 8 x base_depth *)
(* at (H / 32, W / 32).                                                    *)
C9_Encoder ==
    \A i \in 1..Len(models) :
        LET ls == models[i].layers
        IN /\ Len(Pools(ls)) = 5
           /\ \A k \in 1..6 :
                 /\ Cardinality(StageConvs(ls, k)) = StageCount[k]
                 /\ \A c \in StageConvs(ls, k) :
                       /\ ls[c].filters = base_depth * StageWidth[k]
                       /\ Spatial(ls[c]) = <<H \div Pow2(k - 1), W \div Pow2(k - 1)>>
                       /\ ls[c].args = <<ls[c - 1].name>>
                       /\ ls[c].strides = 1
           /\ \A k \in 1..5 :
                 LET p == Index(ls, Pools(ls)[k].name)
                 IN /\ ls[p].kernel = 2 /\ ls[p].strides = 2
                    /\ ls[p].args = <<ls[p - 1].name>>
                    /\ p - 1 \in StageConvs(ls, k)
                    /\ p + 1 \in StageConvs(ls, k + 1)
                    /\ Spatial(ls[p]) = <<H \div Pow2(k), W \div Pow2(k)>>

C9_Witness ==
    /\ Len(models) >= 1
    /\ Cardinality(StageConvs(models[1].layers, 5)) = 2
    /\ Spatial(Tensor(models[1].layers, "conv6_1")) = <<H \div 32, W \div 32>>
    /\ base_depth >= 2

-----------------------------------------------------------------------------
(* Names of the layers with a path from the graph's input: a layer has    *)
(* one when it is the input or reads a layer, created before it, that has. *)
RECURSIVE FromInput(_, _, _)
FromInput(m, i, acc) ==
    IF i > Len(m.layers) THEN acc
    ELSE LET l == m.layers[i]
         IN FromInput(m, i + 1,
                IF l.name = m.inputs \/ \E k \in 1..Len(l.args) : l.args[k] \in acc
                THEN acc \cup {l.name} ELSE acc)

(* Names of the layers with a path to the graph's output: the output, and  *)
(* what a layer with such a path reads. *)
RECURSIVE ToOutput(_, _, _)
ToOutput(m, i, acc) ==
    IF i = 0 THEN acc
    ELSE LET l == m.layers[i]
         IN ToOutput(m, i - 1,
                IF l.name \in acc
                THEN acc \cup {l.args[k] : k \in 1..Len(l.args)} ELSE acc)

Names(ls) == {ls[i].name : i \in 1..Len(ls)}

(* C10: a returned graph is acyclic with exactly one input node and        *)
(* exactly one output node; every layer the builder created lies on a path *)
(* from the input to the output, and every layer's inputs were created     *)
(* before the layer.                                                       *)
C10_ConnectedDag ==
    \A i \in 1..Len(models) :
        LET m == models[i]
            ls == m.layers
        IN /\ Len(ls) = Len(Body(base_depth))
           /\ Cardinality(Names(ls)) = Len(ls)
           /\ \A a \in 1..Len(ls) : \A k \in 1..Len(ls[a].args) :
                 \E b \in 1..(a - 1) : ls[b].name = ls[a].args[k]
           /\ {a \in 1..Len(ls) : ls[a].args = <<>>} = {Index(ls, m.inputs)}
           /\ Tensor(ls, m.inputs).op = "Input"
           /\ {a \in 1..Len(ls) : Consumers(ls, ls[a].name) = {}} = {Index(ls, m.outputs)}
           /\ FromInput(m, 1, {}) = Names(ls)
           /\ ToOutput(m, Len(ls), {m.outputs}) = Names(ls)

C10_Witness ==
    /\ Len(models) >= 1
    /\ Len(models[1].layers) = Len(Body(base_depth))
    /\ ToOutput(models[1], Len(models[1].layers), {"out"}) = Names(models[1].layers)
    /\ FromInput(models[1], 1, {}) = Names(models[1].layers)

====
